---- MODULE Spec2Model ----
(***************************************************************************)
(* Verification model of volume-cartographer's segmentation driver         *)
(* (apps/src/Segment.cpp), the reslice candidate ranking                   *)
(* (segmentation/localResliceParticleSim/slice.cpp), the cached volume     *)
(* reader declared in common/datatypes/Volume.h, the VC-Texture main       *)
(* window and texture thread (apps/VC-Texture) and vc_invertCloud          *)
(* (utils/src/InvertCloud.cpp).                                            *)
(*                                                                         *)
(* The specifications share the variables:                                 *)
(*   Spec        one run of the vc_segment driver (main of Segment.cpp)    *)
(*   SpecVolSel  the driver's choice of volume                             *)
(*   SpecRank    Slice::findNextPosition on bounded candidate lists        *)
(*   SpecRound   the relaxation rounds of one propagation step             *)
(*   SpecCache   concurrent readers of the Volume slice cache              *)
(*   SpecBounds  one reader of the Volume with arbitrary arguments         *)
(*   SpecGui     a session of VC-Texture                                   *)
(*   SpecInvert  vc_invertCloud on bounded point sets                      *)
(*   SpecMesh    a caller of HalfEdgeMesh (core/src/HalfEdgeMesh.cpp)      *)
(***************************************************************************)
EXTENDS Integers, Sequences, FiniteSets, TLC

(***************************************************************************)
(* Bounds of the model                                                     *)
(***************************************************************************)
MaxHeight == 2      \* rows of the stored master cloud
MaxWidth == 2       \* points per row of the master cloud
MaxIndex == 4       \* largest slice index given as start-index / end-index
MaxStride == 2      \* largest value of --stride
MaxStep == 2        \* largest value of --step-size
MaxRidgeX == 2      \* x positions 0..MaxRidgeX may carry an intensity ridge
ResliceSize == 5    \* columns of a reslice window (32 in the program)
NMaxima == 3        \* candidates kept by findNMaxima (4 in the program)
BaseZ == 1          \* slice index of the first row of the master cloud
NumSlices == 3      \* slices of the volume
SliceWidth == 1     \* voxels per slice row
SliceHeight == 1    \* rows per slice
MaxBudgetPlanes == 3 \* largest cache budget, in slice planes
MaxParticles == 3   \* particles of the chain in a relaxation round
MaxPos == 2         \* candidate positions 0..MaxPos along a reslice row
MaxRounds == 1      \* optimizationIterations
MaxRuns == 2        \* texture threads constructed in one session of VC-Texture
MaxVolumes == 3     \* volumes a volume package can hold
MaxVerts == 4       \* vertices added to the half-edge mesh between two clears
MaxFaces == 3       \* faces added to the half-edge mesh
MaxClears == 1      \* calls of HalfEdgeMesh::clear
MaxConnects == 2    \* calls of HalfEdgeMesh::constructConnectedness

(***************************************************************************)
(* Program constants                                                       *)
(***************************************************************************)
Sentinel == -1              \* z of a point that has no position
kDefaultStartIndex == -1
IntMax == 2147483647        \* int32_t
IntMin == -IntMax - 1
BytesPerVoxel == 2          \* uint16_t intensities

VARIABLES
    \* ---- vc_segment run (Segment.cpp main) ----
    pc,             \* position in main
    failure,        \* why the run ended early ("none" while it has not)
    build,          \* what the build does on an out-of-range double -> int32
    opts,           \* parsed command line
    stored,         \* the segmentation's point set on disk
    overwritten,    \* TRUE once setPointSet has been called
    masterCloud, chainLength, minIndex, maxIndex, startIndex, endIndex,
    immutableCloud, segPath,
    volume,         \* the volume handed to the segmenter
    invoked,        \* TRUE once segmenter.compute() has been entered
    chain, currentZ, targetZ, stepSize, accumulatedSurface, steps, startZ,
    \* ---- candidate ranking (slice.cpp) ----
    rkPc, rkMaxima, rkSorted, rkNext,
    \* ---- Volume slice cache (Volume.h) ----
    budget,         \* cache budget in bytes
    entry,          \* per slice index: "absent", "loading" or "ready"
    lru,            \* the ready slices, most recently used first
    tpc,            \* per reader: position in its call
    req,            \* per reader: the call in progress
    held,           \* per reader: the slices its sample call has pinned
    lastReturn,     \* what the most recent return handed back
    lastEvict,      \* the most recent eviction: its cause, and what it passed over
    env,            \* who calls the volume, and with which arguments
    \* ---- one step's relaxation rounds (LocalResliceSegmentation) ----
    rdPc,           \* "evaluating" while rounds remain, then "done"
    rdChain,        \* the chain's positions as of the start of the round
    rdCands,        \* per evaluated particle: its candidate positions
    rdPending,      \* per evaluated particle: the position it selected
    rdDone,         \* the particles evaluated in this round
    rdRound,        \* completed rounds
    rdReordered,    \* TRUE once a particle was evaluated before a lower one
    \* ---- VC-Texture (MainWindow.cpp, MyThread.cpp) ----
    status,         \* GlobalValues' ThreadStatus
    runs,           \* texture threads constructed so far
    thPc,           \* position of the texture thread in run()
    thResult,       \* the status run() set when it ended
    thSeen,         \* what run() found: no point set, or a cloud of some height
    thDid,          \* the processing stages run() has performed
    seg,            \* the active segmentation: has a point set, and its height
    rendering,      \* GlobalValues' rendering: has images, and the run that set it
    volPkg,         \* the loaded volume package
    guiShown,       \* what the viewers display
    files,          \* files written by save and export
    windowOpen,     \* FALSE once a close request was accepted
    lastGui,        \* the most recent GUI action and how it ended
    guiTick,        \* flips with every GUI action
    \* ---- vc_segment's choice of volume (Segment.cpp 158-167) ----
    vsPc,           \* "start", then "selected"
    vsVolumes,      \* the ids of the volumes in the package
    vsOption,       \* the id given with --volume, 0 when the option is absent
    vsSegVolumeID,  \* the segmentation's associated volume id, 0 when it has none
    vsVolume,       \* the volume the run goes on with
    \* ---- vc_invertCloud (InvertCloud.cpp) ----
    ivPc,           \* "loaded", then "written"
    ivInput,        \* the point set read from the input file
    ivNumSlices,    \* slices of the volume named on the command line
    ivOutput,       \* the point set written to the output file
    \* ---- HalfEdgeMesh (HalfEdgeMesh.cpp) ----
    hmPc,           \* "ready", or "undefined" once a call had undefined behaviour
    edgeHeap,       \* every Edge object made so far; an EdgePtr is its index
    verts_,         \* per vertex: its id and its edge pointer (0 for nullptr)
    edges_,         \* the mesh's edges, as pointers into edgeHeap
    faces_,         \* per face: its id, its first edge and its connected flag
    pairLookupMap_, \* the (vertex id, EdgePtr) entries, in insertion order
    classified,     \* vertices held by interior_ and boundary_ together
    hmClears,       \* calls of clear so far
    hmConnects,     \* calls of constructConnectedness so far
    hmLast          \* the most recent call

segVars == <<pc, failure, opts, stored, overwritten, masterCloud, chainLength,
             minIndex, maxIndex, startIndex, endIndex, immutableCloud, segPath,
             volume, invoked, chain, currentZ, targetZ, stepSize,
             accumulatedSurface, steps, startZ>>
rankVars == <<rkPc, rkMaxima, rkSorted, rkNext>>
cacheVars == <<budget, entry, lru, tpc, req, held, lastReturn, lastEvict, env>>
roundVars == <<rdPc, rdChain, rdCands, rdPending, rdDone, rdRound, rdReordered>>
guiVars == <<status, runs, thPc, thResult, thSeen, thDid, seg, rendering, volPkg,
             guiShown, files, windowOpen, lastGui, guiTick>>
volSelVars == <<vsPc, vsVolumes, vsOption, vsSegVolumeID, vsVolume>>
invVars == <<ivPc, ivInput, ivNumSlices, ivOutput>>
meshVars == <<hmPc, edgeHeap, verts_, edges_, faces_, pairLookupMap_, classified,
              hmClears, hmConnects, hmLast>>
extVars == <<roundVars, guiVars, volSelVars, invVars, meshVars>>
vars == <<segVars, build, rankVars, cacheVars, extVars>>

None == [none |-> TRUE]

CeilDiv(a, b) == (a + b - 1) \div b

(***************************************************************************)
(* OrderedPointSet: a width and a sequence of rows of points [x, z].       *)
(***************************************************************************)
PointSet(w, rs) == [width |-> w, rows |-> rs]

height(ps) == Len(ps.rows)

\* first point of the first row
front(ps) == ps.rows[1][1]

\* the point with the largest z
MaxOf(S) == CHOOSE m \in S : \A n \in S : n <= m
maxZ(ps) == MaxOf({ps.rows[r][c].z : r \in 1..height(ps), c \in 1..ps.width})

\* rows [i, j) as a new point set; the index is checked
copyRowsOk(ps, i, j) == i <= j /\ j <= height(ps)
copyRowsAfterFirst(ps, i, j) == PointSet(ps.width, SubSeq(ps.rows, i + 2, j))
copyRows(ps, i, j) == PointSet(ps.width, SubSeq(ps.rows, i + 1, j))

\* row i (0-based); the index is checked
getRowOk(ps, i) == 0 <= i /\ i < height(ps)
getRow(ps, i) == ps.rows[i + 1]

\* append the rows of another set of the same width
appendOk(ps, other) == ps.width = other.width
append(ps, other) == PointSet(ps.width, ps.rows \o other.rows)

\* the master clouds a segmentation can hold: row r lies on slice
\* BaseZ + r - 1, column c starts at x = c, and the points of `holes` are
\* sentinels; a cloud is complete or has one sentinel point, anywhere
Cloud(h, w, holes) ==
    PointSet(w, [r \in 1..h |-> [c \in 1..w |->
        [x |-> c, z |-> IF <<r, c>> \in holes THEN Sentinel ELSE BaseZ + r - 1]]])
Clouds ==
    UNION {
        {Cloud(hw[1], hw[2], {})}
            \cup {Cloud(hw[1], hw[2], {pt}) : pt \in (1..hw[1]) \X (1..hw[2])}
        : hw \in (1..MaxHeight) \X (1..MaxWidth) }

(***************************************************************************)
(* Command line (Segment.cpp 43-102)                                       *)
(***************************************************************************)
StartOpts == {kDefaultStartIndex} \cup (0..MaxIndex)
EndOpts == 0..MaxIndex
StrideOpts == (-1)..MaxStride
StepOpts == 1..MaxStep

\* opts.count(name): start-index has a default value, so it always counts
count(o, name) ==
    CASE name = "start-index" -> 1
      [] name = "end-index" -> IF o.hasEnd THEN 1 ELSE 0
      [] name = "stride" -> IF o.hasStride THEN 1 ELSE 0

(***************************************************************************)
(* Slice::findNextPosition (slice.cpp 30-53)                               *)
(***************************************************************************)
Builds == {"indefinite", "saturate", "wrap"}

\* int32_t(std::sqrt(double((first - x)) * (first - x))) with first an
\* unsigned 32-bit column and x an int: first - x is computed in uint32, so
\* for first < x it is 2^32 - (x - first) >= 2^31, the square root gives that
\* value back, and its conversion to int32_t is out of range: undefined
\* behaviour whose outcome depends on the build: the x86 "integer indefinite"
\* value INT_MIN, a saturating conversion's INT_MAX, or the low 32 bits.
dist2(first, x, b) ==
    IF first >= x THEN first - x
    ELSE CASE b = "indefinite" -> IntMin
           [] b = "saturate" -> IntMax
           [] b = "wrap" -> first - x

\* the comparator handed to std::sort
closer(lhs, rhs, x, b) == dist2(lhs, x, b) < dist2(rhs, x, b)

\* std::sort(maxima.begin(), maxima.end(), closer): every arrangement of the
\* elements in which no element is preceded by one the comparator puts
\* after it (std::sort is not stable)
Arrangements(n) == {p \in [1..n -> 1..n] : \A i, j \in 1..n : i # j => p[i] # p[j]}
sorted(maxima, x, b) ==
    { s \in { [i \in 1..Len(maxima) |-> maxima[p[i]]] : p \in Arrangements(Len(maxima)) } :
        \A i, j \in 1..Len(s) : i < j => ~closer(s[j], s[i], x, b) }

\* center.x
centerX(cols) == cols \div 2

Throw == [threw |-> "std::out_of_range"]

\* the columns findNextPosition may return for a list of maxima (the column
\* of maxima.at(0) after the sort), or Throw when the list is empty
findNextPosition(maxima, cols, b) ==
    IF maxima = <<>> THEN {Throw}
    ELSE { [col |-> s[1]] : s \in sorted(maxima, centerX(cols), b) }

(***************************************************************************)
(* The volume read by the segmenter: vertical intensity ridges at the x    *)
(* positions `ridges` on every slice up to `top`, zero everywhere else.    *)
(* A volume is flat (no ridge), has one ridge, or has two ridges that a    *)
(* reslice window can hold to the left and to the right of a particle.     *)
(***************************************************************************)
Tops == {BaseZ + 1, MaxIndex + MaxStride + MaxStep}
Ridges ==
    {{}} \cup {{a} : a \in 0..MaxRidgeX} \cup {{a, a + 2} : a \in 0..(MaxRidgeX - 2)}
Volumes == [ridges : Ridges, top : Tops]

\* ScalarVolume sample: brighter ridges to the right, no data (0) elsewhere
intensity(vol, x, z) == IF z <= vol.top /\ x \in vol.ridges THEN x + 1 ELSE 0

\* the reslice row ahead of a particle at x, for the level z: column c of the
\* window (0-based) is the voxel x - center.x + c
profile(vol, x, z, cols) ==
    [k \in 1..cols |-> intensity(vol, x - centerX(cols) + (k - 1), z)]

\* IntensityProfileAnalyzer findMaxima: the n highest local maxima (sign
\* change of the first difference from + to -), larger intensity first,
\* then smaller index; columns are 0-based
RECURSIVE pickMaxima(_, _, _)
pickMaxima(p, S, n) ==
    IF n = 0 \/ S = {} THEN <<>>
    ELSE LET best == CHOOSE c \in S : \A d \in S :
                        p[d + 1] < p[c + 1] \/ (p[d + 1] = p[c + 1] /\ c <= d)
         IN <<best>> \o pickMaxima(p, S \ {best}, n - 1)
findNMaxima(p, n) ==
    pickMaxima(p, {c \in 1..(Len(p) - 2) : p[c] < p[c + 1] /\ p[c + 1] > p[c + 2]}, n)

(***************************************************************************)
(* main of Segment.cpp                                                     *)
(***************************************************************************)
InitSeg ==
    /\ pc = "start"
    /\ failure = "none"
    /\ opts \in [hasEnd : BOOLEAN, hasStride : BOOLEAN,
                 start : {None}, end : {None}, stride : {None}, step : {None}]
    /\ stored \in Clouds
    /\ overwritten = FALSE
    /\ masterCloud = None /\ chainLength = None
    /\ minIndex = None /\ maxIndex = None
    /\ startIndex = None /\ endIndex = None
    /\ immutableCloud = None /\ segPath = None
    /\ volume = None
    /\ invoked = FALSE
    /\ chain = None /\ currentZ = None /\ targetZ = None /\ stepSize = None
    /\ accumulatedSurface = None /\ steps = 0 /\ startZ = None

\* std::exit(1) after a reported error
Exit(why) == pc' = "exited" /\ failure' = why

\* an exception nobody catches leaves main
Crash(why) == pc' = "crashed" /\ failure' = why

\* lines 110-120: the checks on the option combination
ParseArgs ==
    /\ pc = "start"
    /\ IF ~(count(opts, "start-index") > 0 \/ count(opts, "stride") > 0)
       THEN Exit("usage")
       ELSE IF count(opts, "end-index") > 0 /\ count(opts, "stride") > 0
       THEN Exit("usage")
       ELSE pc' = "load" /\ failure' = failure
    /\ UNCHANGED <<opts, stored, overwritten, masterCloud, chainLength, minIndex,
                   maxIndex, startIndex, endIndex, immutableCloud, segPath,
                   volume, invoked, chain, currentZ, targetZ, stepSize,
                   accumulatedSurface, steps, startZ>>

\* lines 145-195: open the package, read start-index and step-size, load the
\* segmentation's point set and derive chainLength, minIndex, maxIndex
LoadPackage ==
    /\ pc = "load"
    /\ \E s \in StartOpts, st \in StepOpts :
         /\ opts' = [opts EXCEPT !.start = s, !.step = st]
         /\ startIndex' = IF s = -1 THEN maxZ(stored) ELSE s
    /\ masterCloud' = stored
    /\ chainLength' = stored.width
    /\ minIndex' = front(stored).z
    /\ maxIndex' = maxZ(stored)
    /\ pc' = "target"
    /\ UNCHANGED <<failure, stored, overwritten, endIndex, immutableCloud, segPath,
                   volume, invoked, chain, currentZ, targetZ, stepSize,
                   accumulatedSurface, steps, startZ>>

\* lines 198-200: end-index when given, startIndex + stride otherwise
endIndexOf(o, start) ==
    IF count(o, "end-index") > 0 THEN o.end ELSE start + o.stride

\* line 203: nothing to segment
notAfterStartNever(start, end) == FALSE
notAfterStart(start, end) == start >= end

\* lines 197-210
ComputeTarget ==
    /\ pc = "target"
    /\ IF ~opts.hasEnd /\ ~opts.hasStride
       THEN \* opts["stride"].as<int>() on an absent option: boost::bad_any_cast
            /\ Crash("bad_any_cast")
            /\ UNCHANGED <<opts, endIndex>>
       ELSE /\ \E e \in EndOpts, sd \in StrideOpts :
                 opts' = [opts EXCEPT !.end = IF opts.hasEnd THEN e ELSE None,
                                      !.stride = IF opts.hasStride THEN sd ELSE None]
            /\ endIndex' = endIndexOf(opts', startIndex)
            /\ IF notAfterStart(startIndex, endIndex')
               THEN Exit("nothing to segment")
               ELSE pc' = "clouds" /\ failure' = failure
    /\ UNCHANGED <<stored, overwritten, masterCloud, chainLength, minIndex,
                   maxIndex, startIndex, immutableCloud, segPath, volume, invoked,
                   chain, currentZ, targetZ, stepSize, accumulatedSurface, steps,
                   startZ>>

\* lines 225-230: erase the points with z = -1
removeSentinelsNot(row) == row
removeSentinels(row) == SelectSeq(row, LAMBDA e : e.z # Sentinel)

\* line 234: the starting chain has the declared width
chainLengthMatchesNonEmpty(path, len) == Len(path) >= 1
chainLengthMatches(path, len) == Len(path) = len

\* lines 212-245
PrepareClouds ==
    /\ pc = "clouds"
    /\ LET pathInCloudIndex == startIndex - minIndex
       IN IF startIndex > minIndex /\ ~copyRowsOk(masterCloud, 0, pathInCloudIndex)
          THEN Crash("range_error") /\ UNCHANGED <<immutableCloud, segPath>>
          ELSE /\ immutableCloud' =
                    IF startIndex > minIndex
                    THEN copyRows(masterCloud, 0, pathInCloudIndex)
                    ELSE PointSet(masterCloud.width, <<>>)
               /\ IF ~getRowOk(masterCloud, pathInCloudIndex)
                  THEN Crash("range_error") /\ UNCHANGED segPath
                  ELSE /\ segPath' = removeSentinels(getRow(masterCloud, pathInCloudIndex))
                       /\ IF ~chainLengthMatches(segPath', chainLength)
                          THEN Exit("ChainWidthMismatch")
                          ELSE pc' = "run" /\ failure' = failure
    /\ UNCHANGED <<opts, stored, overwritten, masterCloud, chainLength, minIndex,
                   maxIndex, startIndex, endIndex, volume, invoked, chain, currentZ,
                   targetZ, stepSize, accumulatedSurface, steps, startZ>>

(***************************************************************************)
(* LocalResliceSegmentation::compute, driven by lines 247-268: the chain   *)
(* advances one level of stepSize per step until currentZ reaches targetZ. *)
(***************************************************************************)
\* the candidates of the particle at x for the level z
maximaAt(vol, x, z) == findNMaxima(profile(vol, x, z, ResliceSize), NMaxima)

\* the segmenter is configured from the chain, the volume, endIndex and step
StartSegmenter ==
    /\ pc = "run"
    /\ \E vol \in Volumes : volume' = vol
    /\ chain' = segPath
    /\ targetZ' = endIndex
    /\ stepSize' = opts.step
    /\ currentZ' = segPath[1].z
    /\ startZ' = segPath[1].z
    /\ accumulatedSurface' = <<>>
    /\ invoked' = TRUE
    /\ IF targetZ' < currentZ'
       THEN Crash("target before start")
       ELSE pc' = "stepping" /\ failure' = failure
    /\ UNCHANGED <<opts, stored, overwritten, masterCloud, chainLength, minIndex,
                   maxIndex, startIndex, endIndex, immutableCloud, segPath, steps>>

\* one step: every particle that is not a sentinel takes the position
\* findNextPosition returns for its reslice at the new level
Step ==
    /\ pc = "stepping"
    /\ currentZ < targetZ
    /\ LET z == currentZ + stepSize
           live == {i \in 1..Len(chain) : chain[i].z # Sentinel}
           next == [i \in 1..Len(chain) |->
                       IF i \in live
                       THEN findNextPosition(maximaAt(volume, chain[i].x, z), ResliceSize, build)
                       ELSE {[col |-> 0]}]
       IN IF \E i \in live : Throw \in next[i]
          THEN /\ Crash(Throw.threw)
               /\ UNCHANGED <<chain, currentZ, accumulatedSurface, steps>>
          ELSE \E pick \in [1..Len(chain) -> 0..(ResliceSize - 1)] :
                 /\ \A i \in 1..Len(chain) : [col |-> pick[i]] \in next[i]
                 /\ chain' = [i \in 1..Len(chain) |->
                        IF i \in live
                        THEN [x |-> chain[i].x - centerX(ResliceSize) + pick[i], z |-> z]
                        ELSE chain[i]]
                 /\ accumulatedSurface' = Append(accumulatedSurface, chain')
                 /\ currentZ' = z
                 /\ steps' = steps + 1
                 /\ pc' = pc /\ failure' = failure
    /\ UNCHANGED <<opts, stored, overwritten, masterCloud, chainLength, minIndex,
                   maxIndex, startIndex, endIndex, immutableCloud, segPath, volume,
                   invoked, targetZ, stepSize, startZ>>

\* lines 268-276: compute returns the accumulated rows, which are appended to
\* the immutable rows and saved as the segmentation's point set
Finish ==
    /\ pc = "stepping"
    /\ currentZ >= targetZ
    /\ LET mutableCloud == PointSet(Len(chain), accumulatedSurface)
       IN IF ~appendOk(immutableCloud, mutableCloud)
          THEN Crash("logic_error") /\ UNCHANGED <<stored, overwritten>>
          ELSE /\ stored' = append(immutableCloud, mutableCloud)
               /\ overwritten' = TRUE
               /\ pc' = "saved" /\ failure' = failure
    /\ UNCHANGED <<opts, masterCloud, chainLength, minIndex, maxIndex, startIndex,
                   endIndex, immutableCloud, segPath, volume, invoked, chain,
                   currentZ, targetZ, stepSize, accumulatedSurface, steps, startZ>>

(***************************************************************************)
(* findNextPosition on its own: any list of distinct candidate columns     *)
(***************************************************************************)
MaximaSeqs ==
    UNION { { m \in [1..n -> 0..(ResliceSize - 1)] :
                \A i, j \in 1..n : i # j => m[i] # m[j] } : n \in 0..NMaxima }

InitRank ==
    /\ rkPc = "call"
    /\ rkMaxima \in MaximaSeqs
    /\ rkSorted = None
    /\ rkNext = None

FindNext ==
    /\ rkPc = "call"
    /\ rkSorted' \in sorted(rkMaxima, centerX(ResliceSize), build)
    /\ rkNext' \in findNextPosition(rkMaxima, ResliceSize, build)
    /\ rkNext' # Throw => rkNext'.col = rkSorted'[1]
    /\ rkPc' = "returned"
    /\ UNCHANGED rkMaxima

(***************************************************************************)
(* Volume: the slice cache behind getSliceData / getInterpolatedIntensity  *)
(* (Volume.h 29-66), read by concurrent readers.  Coordinates are in half  *)
(* voxels: the coordinate c stands for the position c / 2.                  *)
(***************************************************************************)
Readers == {"r1", "r2"}

\* the slice indices a call may name: one below and one above the volume
SliceIds == (-1)..NumSlices

\* the coordinates a sample call may name, in half voxels: every half step
\* of z from below the first slice to the end of the last one, and for x and
\* y the first position, the last one and the nearest ones outside
SampleCoords ==
    {<<0, 0, z>> : z \in (-1)..(2 * NumSlices)}
    \cup {<<x, 0, 0>> : x \in {-1, 2 * SliceWidth}}
    \cup {<<0, y, 0>> : y \in {-1, 2 * SliceHeight}}
    \cup {<<2 * SliceWidth - 1, 2 * SliceHeight - 1, 2 * NumSlices - 1>>}

\* bytes of one decoded slice plane
PlaneBytes == SliceWidth * SliceHeight * BytesPerVoxel

\* a budget holds at least the two planes one sample call pins
Budgets == {k * PlaneBytes : k \in 2..MaxBudgetPlanes}

\* getSlice validates its index against [0, numSlices)
indexInRange(i) == 0 <= i /\ i < NumSlices

\* sample validates its coordinate against [0,width) x [0,height) x [0,numSlices)
coordInRangeUpTo(x, y, z) ==
    /\ 0 <= x /\ x <= 2 * SliceWidth
    /\ 0 <= y /\ y <= 2 * SliceHeight
    /\ 0 <= z /\ z <= 2 * NumSlices
coordInRange(x, y, z) ==
    /\ 0 <= x /\ x < 2 * SliceWidth
    /\ 0 <= y /\ y < 2 * SliceHeight
    /\ 0 <= z /\ z < 2 * NumSlices

\* the slice planes holding the 8 voxels around a coordinate: floor(z) and
\* ceil(z); a neighbour past the last slice is not read
neighbours(z) == {z \div 2, (z + 1) \div 2}
planesOf(z) == {i \in neighbours(z) : indexInRange(i)}

\* the planes a call in progress needs
need(r) == IF r.op = "getSlice" THEN {r.index} ELSE planesOf(r.z)

Ready == {i \in SliceIds : entry[i] = "ready"}
Pinned == UNION {held[t] : t \in Readers}

\* the callers of a scenario: the readers that call, the coordinates they
\* sample and the slice indices they fetch
AnyCaller == [readers |-> {"r1"}, coords |-> SampleCoords, indices |-> SliceIds]
ValidCallers ==
    [readers |-> Readers,
     coords |-> {c \in SampleCoords : coordInRange(c[1], c[2], c[3])},
     indices |-> {i \in SliceIds : indexInRange(i)}]
residentBytes == Cardinality(Ready) * PlaneBytes

\* a resident plane can be handed out; an absent one must be loaded; a plane
\* that another reader is loading is waited for
isResident(e) == e = "ready"
mustLoadUnlessReady(e) == e # "ready"
mustLoad(e) == e = "absent"

MinOf(S) == CHOOSE m \in S : \A n \in S : m <= n

\* the slice a reader acquires next
target(t) == MinOf(need(req[t]) \ held[t])

\* how many planes must leave for `incoming` more bytes to fit the budget
evictionsNeededNone(resident, incoming, limit) == 0
evictionsNeeded(resident, incoming, limit) ==
    IF resident + incoming > limit
    THEN CeilDiv(resident + incoming - limit, PlaneBytes)
    ELSE 0

\* the k least recently used slices among those no sample call has pinned
unpinnedOrNot(order, pinnedSet) == order
unpinned(order, pinnedSet) == SelectSeq(order, LAMBDA i : i \notin pinnedSet)
victims(order, pinnedSet, k) ==
    LET u == unpinned(order, pinnedSet)
    IN {u[j] : j \in (Len(u) - k + 1)..Len(u)}
canEvict(order, pinnedSet, k) == k <= Len(unpinned(order, pinnedSet))

without(order, gone) == SelectSeq(order, LAMBDA i : i \notin gone)
touch(order, i) == <<i>> \o without(order, {i})

\* what an eviction leaves for the record: its cause and whether the least
\* recently used plane of all was pinned and therefore passed over
evictionRecord(cause, order, pinnedSet) ==
    [by |-> cause, passedOver |-> order # <<>> /\ order[Len(order)] \in pinnedSet]

InitCache ==
    /\ env \in {AnyCaller, ValidCallers}
    /\ budget \in Budgets
    /\ entry = [i \in SliceIds |-> "absent"]
    /\ lru = <<>>
    /\ tpc = [t \in Readers |-> "idle"]
    /\ req = [t \in Readers |-> None]
    /\ held = [t \in Readers |-> {}]
    /\ lastReturn = [kind |-> "none"]
    /\ lastEvict = [by |-> "none", passedOver |-> FALSE]

IdleCache ==
    /\ budget = 0 /\ entry = None /\ lru = <<>> /\ tpc = None /\ req = None
    /\ held = None /\ lastReturn = None /\ lastEvict = None /\ env = None

\* getSlice(index): an out-of-range index is an error, otherwise the plane is
\* acquired from the cache or from storage
GetSliceCall(t) ==
    /\ tpc[t] = "idle"
    /\ \E i \in env.indices :
         IF ~indexInRange(i)
         THEN /\ lastReturn' = [kind |-> "error", err |-> "IndexOutOfRange",
                                op |-> "getSlice", index |-> i]
              /\ UNCHANGED <<tpc, req>>
         ELSE /\ req' = [req EXCEPT ![t] = [op |-> "getSlice", index |-> i]]
              /\ tpc' = [tpc EXCEPT ![t] = "acquire"]
              /\ lastReturn' = lastReturn
    /\ UNCHANGED <<budget, entry, lru, held, lastEvict, env>>

\* sample(x, y, z): an out-of-range coordinate returns the no-data value and
\* touches no slice, otherwise the planes around z are acquired and pinned
SampleCall(t) ==
    /\ tpc[t] = "idle"
    /\ \E c \in env.coords :
         IF ~coordInRange(c[1], c[2], c[3])
         THEN /\ lastReturn' = [kind |-> "nodata", op |-> "sample",
                                x |-> c[1], y |-> c[2], z |-> c[3]]
              /\ UNCHANGED <<tpc, req>>
         ELSE /\ req' = [req EXCEPT ![t] =
                    [op |-> "sample", x |-> c[1], y |-> c[2], z |-> c[3]]]
              /\ tpc' = [tpc EXCEPT ![t] =
                    IF planesOf(c[3]) = {} THEN "interpolate" ELSE "acquire"]
              /\ lastReturn' = lastReturn
    /\ UNCHANGED <<budget, entry, lru, held, lastEvict, env>>

\* the reader has plane i: getSlice returns it, sample pins it and goes on
\* to its next plane or to the interpolation
Obtained(t, i) ==
    IF req[t].op = "getSlice"
    THEN /\ lastReturn' = [kind |-> "plane", complete |-> entry'[i] = "ready"]
         /\ req' = [req EXCEPT ![t] = None]
         /\ tpc' = [tpc EXCEPT ![t] = "idle"]
         /\ held' = held
    ELSE /\ held' = [held EXCEPT ![t] = @ \cup {i}]
         /\ tpc' = [tpc EXCEPT ![t] =
                IF need(req[t]) \subseteq held'[t] THEN "interpolate" ELSE "acquire"]
         /\ UNCHANGED <<req, lastReturn>>

\* cache hit: the plane becomes the most recently used
Hit(t) ==
    /\ tpc[t] = "acquire"
    /\ isResident(entry[target(t)])
    /\ lru' = touch(lru, target(t))
    /\ entry' = entry
    /\ Obtained(t, target(t))
    /\ UNCHANGED <<budget, lastEvict, env>>

\* cache miss: the index is marked in progress and the load starts
BeginLoad(t) ==
    /\ tpc[t] = "acquire"
    /\ mustLoad(entry[target(t)])
    /\ entry' = [entry EXCEPT ![target(t)] = "loading"]
    /\ tpc' = [tpc EXCEPT ![t] = "loading"]
    /\ UNCHANGED <<budget, lru, req, held, lastReturn, lastEvict, env>>

\* the load is done: room is made by evicting least recently used unpinned
\* planes, then the plane is inserted as the most recently used
CompleteLoad(t) ==
    /\ tpc[t] = "loading"
    /\ LET i == target(t)
           k == evictionsNeeded(residentBytes, PlaneBytes, budget)
           gone == victims(lru, Pinned, k)
       IN /\ canEvict(lru, Pinned, k)
          /\ entry' = [j \in SliceIds |->
                IF j = i THEN "ready" ELSE IF j \in gone THEN "absent" ELSE entry[j]]
          /\ lru' = <<i>> \o without(lru, gone \cup {i})
          /\ lastEvict' = IF gone = {} THEN lastEvict
                          ELSE evictionRecord("insert", lru, Pinned)
          /\ Obtained(t, i)
    /\ UNCHANGED <<budget, env>>

\* the interpolation reads the pinned planes and releases them
Interpolate(t) ==
    /\ tpc[t] = "interpolate"
    /\ lastReturn' = [kind |-> "value",
                      complete |-> \A i \in held[t] : entry[i] = "ready"]
    /\ held' = [held EXCEPT ![t] = {}]
    /\ req' = [req EXCEPT ![t] = None]
    /\ tpc' = [tpc EXCEPT ![t] = "idle"]
    /\ UNCHANGED <<budget, entry, lru, lastEvict, env>>

\* setCacheBudget(bytes): the ceiling changes and, when the cache is over
\* it, least recently used unpinned planes are evicted until it fits
SetCacheBudget ==
    \E b \in Budgets \ {budget} :
        LET k == evictionsNeeded(residentBytes, 0, b)
            gone == victims(lru, Pinned, k)
        IN /\ canEvict(lru, Pinned, k)
           /\ budget' = b
           /\ entry' = [j \in SliceIds |-> IF j \in gone THEN "absent" ELSE entry[j]]
           /\ lru' = without(lru, gone)
           /\ lastEvict' = IF gone = {} THEN lastEvict
                           ELSE evictionRecord("budget", lru, Pinned)
           /\ UNCHANGED <<tpc, req, held, lastReturn, env>>

(***************************************************************************)
(* One step's relaxation rounds (LocalResliceSegmentation::compute).       *)
(* Positions are integer columns of the reslice row; the energy of a       *)
(* candidate is its distance to the particle's own position plus its       *)
(* distances to the live neighbours, all read from one view of the chain.  *)
(***************************************************************************)
Particles == 1..MaxParticles
Positions == 0..MaxPos

\* the candidate sets a particle's profile can yield: none, the two columns
\* at the left end, the two at the right end, or the two ends of the row
CandSets == {{}, {0, 1}, {MaxPos - 1, MaxPos}, {0, MaxPos}}

\* the chains a step starts from: particles in order along the curve
StartChains ==
    {c \in [Particles -> Positions] : \A i \in 1..(MaxParticles - 1) : c[i] <= c[i + 1]}

dist(a, b) == IF a < b THEN b - a ELSE a - b

\* the neighbours of particle i that have a position
liveNeighbours(view, i) ==
    {j \in {i - 1, i + 1} \cap Particles : view[j] # Sentinel}

RECURSIVE sumDist(_, _, _)
sumDist(view, c, S) ==
    IF S = {} THEN 0
    ELSE LET j == CHOOSE k \in S : TRUE
         IN dist(c, view[j]) + sumDist(view, c, S \ {j})

energy(view, i, c) == dist(c, view[i]) + sumDist(view, c, liveNeighbours(view, i))

\* the candidate of least energy, the smaller column on a tie; a particle
\* without a candidate is marked with the sentinel and stays so
select(view, i, cands) ==
    IF view[i] = Sentinel \/ cands = {} THEN Sentinel
    ELSE CHOOSE c \in cands :
            \A d \in cands :
                \/ energy(view, i, c) < energy(view, i, d)
                \/ energy(view, i, c) = energy(view, i, d) /\ c <= d

\* the positions a particle reads while it selects: the chain as it was at
\* the start of the round
neighbourViewInPlace(snapshot, pending, done) ==
    [j \in Particles |-> IF j \in done THEN pending[j] ELSE snapshot[j]]
neighbourView(snapshot, pending, done) == snapshot

InitRound ==
    /\ rdPc = "evaluating"
    /\ rdChain \in StartChains
    /\ rdCands = [i \in Particles |-> {}]
    /\ rdPending = [i \in Particles |-> Sentinel]
    /\ rdDone = {}
    /\ rdRound = 0
    /\ rdReordered = FALSE

IdleRound ==
    /\ rdPc = "unused" /\ rdChain = None /\ rdCands = None /\ rdPending = None
    /\ rdDone = {} /\ rdRound = 0 /\ rdReordered = FALSE

\* particle i is evaluated, in whatever order the scheduler takes them
Evaluate(i) ==
    /\ rdPc = "evaluating"
    /\ i \notin rdDone
    /\ \E cands \in CandSets :
         /\ rdCands' = [rdCands EXCEPT ![i] = cands]
         /\ rdPending' = [rdPending EXCEPT ![i] =
                select(neighbourView(rdChain, rdPending, rdDone), i, cands)]
    /\ rdDone' = rdDone \cup {i}
    /\ rdReordered' = (rdReordered \/ \E j \in Particles \ rdDone : j < i)
    /\ UNCHANGED <<rdPc, rdChain, rdRound>>

\* the end of the round: every particle takes its selected position
CommitRound ==
    /\ rdPc = "evaluating"
    /\ rdDone = Particles
    /\ rdChain' = rdPending
    /\ rdRound' = rdRound + 1
    /\ rdPc' = IF rdRound + 1 >= MaxRounds THEN "done" ELSE "evaluating"
    /\ rdDone' = {}
    /\ rdCands' = [i \in Particles |-> {}]
    /\ rdPending' = [i \in Particles |-> Sentinel]
    /\ UNCHANGED rdReordered

(***************************************************************************)
(* vc_segment's choice of volume (Segment.cpp 158-167)                     *)
(***************************************************************************)
VolumeIds == 1..MaxVolumes

\* volpkg.volume(): the first volume of the package
firstVolume(volumes) == CHOOSE v \in volumes : \A w \in volumes : v <= w

InitVolSel ==
    /\ vsPc = "start"
    /\ vsVolumes \in (SUBSET VolumeIds) \ {{}}
    /\ vsOption \in {0} \cup vsVolumes
    /\ vsSegVolumeID \in {0} \cup vsVolumes
    /\ vsVolume = 0

\* lines 159-167: the assignment under "if (opts.count("volume"))" is
\* followed by an if/else on seg->hasVolumeID() that assigns in both arms
SelectVolume ==
    /\ vsPc = "start"
    /\ LET \* lines 160-162
           afterOption == IF vsOption # 0 THEN vsOption ELSE 0
           \* lines 163-167: both arms assign, whatever afterOption holds
           afterAssociation == IF vsSegVolumeID # 0
                               THEN vsSegVolumeID
                               ELSE firstVolume(vsVolumes)
       IN vsVolume' = afterAssociation
    /\ vsPc' = "selected"
    /\ UNCHANGED <<vsVolumes, vsOption, vsSegVolumeID>>

(***************************************************************************)
(* vc_invertCloud (InvertCloud.cpp 38-56)                                  *)
(***************************************************************************)
\* lines 42-46: the rows are pushed from the last to the first
flipRows(ps) ==
    PointSet(ps.width, [r \in 1..height(ps) |-> getRow(ps, height(ps) - 1 - (r - 1))])

\* lines 51-53: a point that is not a sentinel gets z = maxZ - z
flippedZOfAny(z, top) == top - z
flippedZ(z, top) == IF z # -1 THEN top - z ELSE z

\* lines 49-54
flipZ(ps, top) ==
    PointSet(ps.width,
        [r \in 1..height(ps) |-> [c \in 1..ps.width |->
            [x |-> ps.rows[r][c].x, z |-> flippedZ(ps.rows[r][c].z, top)]]])

\* a volume has at least one slice; the clouds are those of a segmentation,
\* on slices inside the volume or past its last slice
InitInvert ==
    /\ ivPc = "loaded"
    /\ ivInput \in Clouds
    /\ ivNumSlices \in 1..(MaxIndex + 1)
    /\ ivOutput = None

\* lines 38-56
InvertCloud ==
    /\ ivPc = "loaded"
    /\ ivOutput' = flipZ(flipRows(ivInput), ivNumSlices - 1)
    /\ ivPc' = "written"
    /\ UNCHANGED <<ivInput, ivNumSlices>>

(***************************************************************************)
(* VC-Texture: the texture thread (MyThread.cpp)                           *)
(***************************************************************************)
Finals == {"CloudError", "Successful", "Failed"}
RunningStages ==
    {"hasPointSet", "getPointSet", "mesh", "flatten", "texture", "store", "setStatus"}

\* the active segmentation of a run: without a point set, or with one of
\* 0..MaxHeight rows
Segs ==
    {[has |-> FALSE, height |-> 0]} \cup {[has |-> TRUE, height |-> h] : h \in 0..MaxHeight}

NoRendering == [images |-> FALSE, run |-> 0]

\* line 52: a cloud of at most one row has nothing to mesh
nothingToMeshEmptyOnly(h) == h < 1
nothingToMesh(h) == h <= 1

\* lines 155-157: whatever was thrown, the status becomes Failed
statusAfterCatchKept(current) == current
statusAfterCatch(current) == "Failed"

\* run() ends: its last act is to set the status
EndRun(result) ==
    /\ status' = result
    /\ thResult' = result
    /\ thPc' = "returned"

\* a call inside the try block throws
Caught == EndRun(statusAfterCatch(status))

\* lines 31-36: the constructor sets the status and starts the thread; the
\* viewer constructs a thread for the active segmentation of a loaded
\* package while no texture is being generated
Construct ==
    /\ windowOpen
    /\ runs < MaxRuns
    /\ status # "Active"
    /\ volPkg # None /\ volPkg.segs
    /\ seg' \in Segs
    /\ status' = "Active"
    /\ runs' = runs + 1
    /\ thPc' = "hasPointSet"
    /\ thResult' = "none"
    /\ thSeen' = [kind |-> "nothing"]
    /\ thDid' = {}
    /\ UNCHANGED <<rendering, volPkg, guiShown, files, windowOpen, lastGui, guiTick>>

\* lines 42-46
RunHasPointSet ==
    /\ thPc = "hasPointSet"
    /\ \/ Caught /\ UNCHANGED thSeen
       \/ /\ ~seg.has
          /\ thSeen' = [kind |-> "noPointSet"]
          /\ EndRun("CloudError")
       \/ /\ seg.has
          /\ thPc' = "getPointSet"
          /\ UNCHANGED <<status, thResult, thSeen>>
    /\ UNCHANGED <<runs, thDid, seg, rendering, volPkg, guiShown, files, windowOpen,
                   lastGui, guiTick>>

\* lines 49-57
RunGetPointSet ==
    /\ thPc = "getPointSet"
    /\ \/ Caught /\ UNCHANGED thSeen
       \/ /\ thSeen' = [kind |-> "cloud", height |-> seg.height]
          /\ IF nothingToMesh(seg.height)
             THEN EndRun("CloudError")
             ELSE thPc' = "mesh" /\ UNCHANGED <<status, thResult>>
    /\ UNCHANGED <<runs, thDid, seg, rendering, volPkg, guiShown, files, windowOpen,
                   lastGui, guiTick>>

\* a processing stage either throws or completes and hands over to the next
Stage(here, next) ==
    /\ thPc = here
    /\ \/ Caught /\ UNCHANGED thDid
       \/ /\ thDid' = thDid \cup {here}
          /\ thPc' = next
          /\ UNCHANGED <<status, thResult>>
    /\ UNCHANGED <<runs, thSeen, seg, rendering, volPkg, guiShown, files, windowOpen,
                   lastGui, guiTick>>

\* lines 59-92: mesh, resample, clean
RunMesh == Stage("mesh", "flatten")
\* lines 94-109: flattening, UV map, per-pixel map
RunFlatten == Stage("flatten", "texture")
\* lines 111-146: the texture image
RunTexture == Stage("texture", "store")

\* line 152: setRendering replaces the globals' rendering by the one just made
renderingAfterStoreKept(old, made) == old
renderingAfterStore(old, made) == made

\* lines 148-152: the rendering is assembled and stored in the globals; a
\* throw on the way leaves the stored rendering as it was
RunStore ==
    /\ thPc = "store"
    /\ \/ Caught /\ UNCHANGED rendering
       \/ /\ rendering' = renderingAfterStore(rendering, [images |-> TRUE, run |-> runs])
          /\ thPc' = "setStatus"
          /\ UNCHANGED <<status, thResult>>
    /\ UNCHANGED <<runs, thSeen, thDid, seg, volPkg, guiShown, files, windowOpen,
                   lastGui, guiTick>>

\* line 153: the last statement of the try block sets the status
RunSetStatus ==
    /\ thPc = "setStatus"
    /\ EndRun("Successful")
    /\ UNCHANGED <<runs, thSeen, thDid, seg, rendering, volPkg, guiShown, files,
                   windowOpen, lastGui, guiTick>>

(***************************************************************************)
(* VC-Texture: the main window's actions (MainWindow.cpp).  A handler runs *)
(* on the GUI thread from its status check to its return; its dialogs'     *)
(* answers and the calls into code outside this file are chosen freely.    *)
(***************************************************************************)
Packages == {[name |-> "scan.volpkg", segs |-> b] : b \in BOOLEAN}

\* lines 83, 182, 227: "if processing..."
isProcessingNever(st) == FALSE
isProcessing(st) == st = "Active"

\* line 348: a close request while a texture is being generated
closeBlockedNever(st) == FALSE
closeBlocked(st) == st = "Active"

Gui(action, outcome) ==
    /\ lastGui' = [action |-> action, outcome |-> outcome]
    /\ guiTick' = 1 - guiTick

\* lines 179-221: what saveTexture leaves behind: the status, the files and
\* how it ended
SaveOutcomes(st, pkg, rend, fs) ==
    IF isProcessing(st)
    THEN {[status |-> st, files |-> fs, outcome |-> "wait"]}
    ELSE IF pkg # None /\ pkg.segs
    THEN IF rend.images
         THEN {[status |-> "Inactive", files |-> fs \cup {"textured.obj"},
                outcome |-> "saved"],
               [status |-> st, files |-> fs, outcome |-> "saveFailed"],
               [status |-> st, files |-> fs \cup {"textured.obj"},
                outcome |-> "saveFailed"]}
         ELSE {[status |-> st, files |-> fs, outcome |-> "nothingGenerated"]}
    ELSE {[status |-> st, files |-> fs, outcome |-> "noTexture"]}

\* lines 179-221 as a menu action
SaveTexture ==
    /\ windowOpen
    /\ \E sv \in SaveOutcomes(status, volPkg, rendering, files) :
         /\ status' = sv.status
         /\ files' = sv.files
         /\ Gui("saveTexture", sv.outcome)
    /\ UNCHANGED <<runs, thPc, thResult, thSeen, thDid, seg, rendering, volPkg,
                   guiShown, windowOpen>>

\* lines 89-120: how the question about the unsaved texture ended is kept
\* with the action's outcome
GuiAsked(asked, outcome) ==
    /\ lastGui' = [action |-> "getFilePath", outcome |-> outcome, asked |-> asked]
    /\ guiTick' = 1 - guiTick

\* lines 122-175: the status is reset, the GUI cleared, and the folder the
\* user picks is opened as a volume package
OpenFolder(sv) ==
    /\ status' = "Inactive"
    /\ files' = sv.files
    /\ rendering' \in {rendering, NoRendering}
    /\ \E cleared \in {volPkg, None}, pick \in {"", "scan.volpkg", "notes.txt"} :
         CASE pick = "" ->
                /\ volPkg' = cleared /\ guiShown' = "empty"
                /\ GuiAsked(sv.outcome, "noFolder")
           [] pick = "notes.txt" ->
                /\ volPkg' = cleared /\ guiShown' = "empty"
                /\ GuiAsked(sv.outcome, "invalidFile")
           [] pick = "scan.volpkg" ->
                \/ /\ volPkg' \in Packages /\ guiShown' = "segmentations"
                   /\ GuiAsked(sv.outcome, "opened")
                \/ /\ volPkg' = None /\ guiShown' = "empty"
                   /\ GuiAsked(sv.outcome, "badVersion")
                \/ /\ volPkg' \in {cleared, None} /\ guiShown' = "empty"
                   /\ GuiAsked(sv.outcome, "openFailed")

\* lines 80-175
GetFilePath ==
    /\ windowOpen
    /\ IF isProcessing(status)
       THEN /\ Gui("getFilePath", "wait")
            /\ UNCHANGED <<status, rendering, volPkg, guiShown, files>>
       ELSE IF status = "Successful"
       THEN \/ \E sv \in SaveOutcomes(status, volPkg, rendering, files) : OpenFolder(sv)
            \/ OpenFolder([status |-> "Inactive", files |-> files, outcome |-> "discard"])
            \/ /\ GuiAsked("cancel", "cancelled")
               /\ UNCHANGED <<status, rendering, volPkg, guiShown, files>>
       ELSE OpenFolder([status |-> status, files |-> files, outcome |-> "none"])
    /\ UNCHANGED <<runs, thPc, thResult, thSeen, thDid, seg, windowOpen>>

\* lines 224-319
ExportTexture ==
    /\ windowOpen
    /\ IF isProcessing(status)
       THEN Gui("exportTexture", "wait") /\ files' = files
       ELSE IF volPkg = None \/ ~volPkg.segs
       THEN Gui("exportTexture", "noPackage") /\ files' = files
       ELSE \E onDisk \in BOOLEAN, path \in {"", "out.png", "out.jpg", "out.bmp"} :
              IF ~rendering.images /\ ~onDisk
              THEN Gui("exportTexture", "noImage") /\ files' = files
              ELSE IF path = ""
              THEN Gui("exportTexture", "cancelled") /\ files' = files
              ELSE IF path = "out.bmp"
              THEN Gui("exportTexture", "unknownFormat") /\ files' = files
              ELSE \/ Gui("exportTexture", "exported") /\ files' = files \cup {path}
                   \/ /\ Gui("exportTexture", "writeFailed")
                      /\ files' \in {files, files \cup {path}}
    /\ UNCHANGED <<status, runs, thPc, thResult, thSeen, thDid, seg, rendering,
                   volPkg, guiShown, windowOpen>>

\* lines 346-389
CloseEvent ==
    /\ windowOpen
    /\ IF closeBlocked(status)
       THEN /\ Gui("closeEvent", "ignored")
            /\ UNCHANGED <<status, files, windowOpen>>
       ELSE IF status = "Successful"
       THEN \/ \E sv \in SaveOutcomes(status, volPkg, rendering, files) :
                 /\ status' = sv.status /\ files' = sv.files
                 /\ windowOpen' = FALSE
                 /\ Gui("closeEvent", "accepted")
            \/ /\ windowOpen' = FALSE
               /\ Gui("closeEvent", "accepted")
               /\ UNCHANGED <<status, files>>
            \/ /\ Gui("closeEvent", "ignored")
               /\ UNCHANGED <<status, files, windowOpen>>
       ELSE /\ windowOpen' = FALSE
            /\ Gui("closeEvent", "accepted")
            /\ UNCHANGED <<status, files>>
    /\ UNCHANGED <<runs, thPc, thResult, thSeen, thDid, seg, rendering, volPkg,
                   guiShown>>

InitGui ==
    /\ status = "Inactive" /\ runs = 0 /\ thPc = "idle" /\ thResult = "none"
    /\ thSeen = [kind |-> "nothing"] /\ thDid = {}
    /\ seg = [has |-> FALSE, height |-> 0]
    /\ rendering = NoRendering /\ volPkg = None /\ guiShown = "empty"
    /\ files = {} /\ windowOpen = TRUE
    /\ lastGui = [action |-> "none", outcome |-> "none"] /\ guiTick = 0

(***************************************************************************)
(* HalfEdgeMesh (HalfEdgeMesh.cpp).  Edge objects live on the heap and are *)
(* kept alive by every EdgePtr that names them, so an edge can outlast the *)
(* mesh's own lists: edgeHeap holds every edge made, and an EdgePtr is an  *)
(* index into it, 0 standing for nullptr.                                  *)
(***************************************************************************)
\* the faces a caller adds: two triangles on vertices 0, 1, 2 with opposite
\* orientations, and two more on 0, 1, 3 that share the edge between 0 and 1
FaceChoices == {<<0, 1, 2>>, <<1, 0, 2>>, <<0, 1, 3>>, <<1, 0, 3>>}

\* the order in which equal_range hands out the entries of one key; the
\* map's declaration is in the header: a std::multimap keeps insertion
\* order, an unordered one promises none
LookupOrders == {"insertion", "reverse"}

\* lines 96-104, 189, 197, 205: v->edge = e
setVertEdge(vs, v, e) == [vs EXCEPT ![v + 1].edge = e]
linkIfNone(vs, v, e) == IF vs[v + 1].edge = 0 THEN setVertEdge(vs, v, e) ELSE vs

\* lines 32-39: the five lists are emptied; the pair lookup map is not
\* among them
clear ==
    /\ hmPc = "ready"
    /\ hmClears < MaxClears
    /\ verts_' = <<>>
    /\ edges_' = <<>>
    /\ faces_' = <<>>
    /\ classified' = 0
    /\ hmClears' = hmClears + 1
    /\ hmLast' = "clear"
    /\ UNCHANGED <<hmPc, edgeHeap, pairLookupMap_, hmConnects>>

\* lines 43-59
addVert ==
    /\ hmPc = "ready"
    /\ Len(verts_) < MaxVerts
    /\ verts_' = Append(verts_, [id |-> Len(verts_), edge |-> 0])
    /\ hmLast' = "addVert"
    /\ UNCHANGED <<hmPc, edgeHeap, edges_, faces_, pairLookupMap_, classified,
                   hmClears, hmConnects>>

\* lines 62-156, for vertex ids the mesh holds
addFace(v0, v1, v2) ==
    /\ hmPc = "ready"
    /\ Len(edgeHeap) + 3 <= 3 * MaxFaces
    /\ {v0, v1, v2} \subseteq 0..(Len(verts_) - 1)
    /\ LET e0 == Len(edgeHeap) + 1
           e1 == e0 + 1
           e2 == e0 + 2
           n == Len(edges_)
       IN /\ edgeHeap' = edgeHeap \o
                 <<[id |-> n, vert |-> v0, next |-> e1, pair |-> 0],
                   [id |-> n + 1, vert |-> v1, next |-> e2, pair |-> 0],
                   [id |-> n + 2, vert |-> v2, next |-> e0, pair |-> 0]>>
          /\ verts_' = linkIfNone(linkIfNone(linkIfNone(verts_, v0, e0), v1, e1), v2, e2)
          /\ edges_' = edges_ \o <<e0, e1, e2>>
          /\ pairLookupMap_' = pairLookupMap_ \o <<<<v0, e0>>, <<v1, e1>>, <<v2, e2>>>>
          /\ faces_' = Append(faces_, [id |-> Len(faces_), edge |-> e0, connected |-> FALSE])
    /\ hmLast' = "addFace"
    /\ UNCHANGED <<hmPc, classified, hmClears, hmConnects>>

\* lines 217-231: the first entry of key b whose edge ends at vertex a
find_edge_pair_(heap, map, a, b, order) ==
    LET hits == {i \in 1..Len(map) :
                   map[i][1] = b /\ heap[heap[map[i][2]].next].vert = a}
    IN IF hits = {}
       THEN 0
       ELSE map[IF order = "insertion" THEN MinOf(hits) ELSE MaxOf(hits)][2]

\* lines 184-191 (and 192-199, 200-207): one edge of an unconnected face
connectEdge(m, map, e, order) ==
    IF m.heap[e].pair # 0
    THEN m
    ELSE LET a == m.heap[e].vert
             b == m.heap[m.heap[e].next].vert
             found == find_edge_pair_(m.heap, map, a, b, order)
         IN IF found # 0
            THEN [m EXCEPT !.heap = [[m.heap EXCEPT ![e].pair = found]
                                        EXCEPT ![found].pair = e]]
            ELSE [m EXCEPT !.verts = setVertEdge(m.verts, a, e)]

\* lines 173-210: the faces from the first on, in the order they were added
RECURSIVE connectFrom(_, _, _, _)
connectFrom(m, map, k, order) ==
    IF k > Len(m.faces)
    THEN m
    ELSE IF m.faces[k].connected
    THEN connectFrom(m, map, k + 1, order)
    ELSE LET e0 == m.faces[k].edge
             e1 == m.heap[e0].next
             e2 == m.heap[e1].next
             m0 == connectEdge(m, map, e0, order)
             m1 == connectEdge(m0, map, e1, order)
             m2 == connectEdge(m1, map, e2, order)
         IN connectFrom([m2 EXCEPT !.faces[k].connected = TRUE], map, k + 1, order)

\* lines 169-214
connect_all_pairs_(heap, verts, faces, map, order) ==
    connectFrom([heap |-> heap, verts |-> verts, faces |-> faces], map, 1, order)

\* lines 159-166 with 169-214 and 234-243; faces_[0] and verts_[0] of an
\* empty list are undefined behaviour
constructConnectedness ==
    /\ hmPc = "ready"
    /\ hmConnects < MaxConnects
    /\ hmConnects' = hmConnects + 1
    /\ hmLast' = "constructConnectedness"
    /\ IF faces_ = <<>> \/ verts_ = <<>>
       THEN /\ hmPc' = "undefined"
            /\ UNCHANGED <<edgeHeap, verts_, edges_, faces_, pairLookupMap_, classified>>
       ELSE \E order \in LookupOrders :
              LET m == connect_all_pairs_(edgeHeap, verts_, faces_, pairLookupMap_, order)
              IN /\ edgeHeap' = m.heap
                 /\ verts_' = m.verts
                 /\ faces_' = m.faces
                 /\ pairLookupMap_' = <<>>
                 /\ classified' = classified + Len(verts_)
                 /\ UNCHANGED <<hmPc, edges_>>
    /\ UNCHANGED hmClears

InitMesh ==
    /\ hmPc = "ready" /\ edgeHeap = <<>> /\ verts_ = <<>> /\ edges_ = <<>>
    /\ faces_ = <<>> /\ pairLookupMap_ = <<>> /\ classified = 0
    /\ hmClears = 0 /\ hmConnects = 0 /\ hmLast = "none"

(***************************************************************************)
(* Specifications                                                          *)
(***************************************************************************)
IdleGui ==
    /\ status = "unused" /\ runs = 0 /\ thPc = "unused" /\ thResult = "none"
    /\ thSeen = None /\ thDid = {} /\ seg = None /\ rendering = None
    /\ volPkg = None /\ guiShown = "unused" /\ files = {} /\ windowOpen = FALSE
    /\ lastGui = None /\ guiTick = 0
IdleVolSel ==
    /\ vsPc = "unused" /\ vsVolumes = {} /\ vsOption = 0 /\ vsSegVolumeID = 0
    /\ vsVolume = 0
IdleInvert == ivPc = "unused" /\ ivInput = None /\ ivNumSlices = 0 /\ ivOutput = None
IdleMesh ==
    /\ hmPc = "unused" /\ edgeHeap = <<>> /\ verts_ = <<>> /\ edges_ = <<>>
    /\ faces_ = <<>> /\ pairLookupMap_ = <<>> /\ classified = 0
    /\ hmClears = 0 /\ hmConnects = 0 /\ hmLast = "none"
IdleExt == IdleRound /\ IdleGui /\ IdleVolSel /\ IdleInvert /\ IdleMesh
IdleSeg ==
    /\ pc = "unused" /\ failure = "none" /\ opts = None /\ stored = None
    /\ overwritten = FALSE /\ masterCloud = None /\ chainLength = None
    /\ minIndex = None /\ maxIndex = None /\ startIndex = None /\ endIndex = None
    /\ immutableCloud = None /\ segPath = None /\ volume = None /\ invoked = FALSE
    /\ chain = None /\ currentZ = None /\ targetZ = None /\ stepSize = None
    /\ accumulatedSurface = None /\ steps = 0 /\ startZ = None

IdleRank == rkPc = "unused" /\ rkMaxima = None /\ rkSorted = None /\ rkNext = None

Init == InitSeg /\ build \in Builds /\ IdleRank /\ IdleCache /\ IdleExt

Next ==
    \/ ParseArgs /\ UNCHANGED <<build, rankVars, cacheVars, extVars>>
    \/ LoadPackage /\ UNCHANGED <<build, rankVars, cacheVars, extVars>>
    \/ ComputeTarget /\ UNCHANGED <<build, rankVars, cacheVars, extVars>>
    \/ PrepareClouds /\ UNCHANGED <<build, rankVars, cacheVars, extVars>>
    \/ StartSegmenter /\ UNCHANGED <<build, rankVars, cacheVars, extVars>>
    \/ Step /\ UNCHANGED <<build, rankVars, cacheVars, extVars>>
    \/ Finish /\ UNCHANGED <<build, rankVars, cacheVars, extVars>>

Spec == Init /\ [][Next]_vars

InitRankSpec == InitRank /\ build \in Builds /\ IdleSeg /\ IdleCache /\ IdleExt

NextRank == FindNext /\ UNCHANGED <<build, segVars, cacheVars, extVars>>

SpecRank == InitRankSpec /\ [][NextRank]_vars

InitCacheSpec ==
    InitCache /\ env = ValidCallers /\ build = "none" /\ IdleSeg /\ IdleRank /\ IdleExt

NextCache ==
    \/ \E t \in env.readers : GetSliceCall(t) /\ UNCHANGED <<build, segVars, rankVars, extVars>>
    \/ \E t \in env.readers : SampleCall(t) /\ UNCHANGED <<build, segVars, rankVars, extVars>>
    \/ \E t \in env.readers : Hit(t) /\ UNCHANGED <<build, segVars, rankVars, extVars>>
    \/ \E t \in env.readers : BeginLoad(t) /\ UNCHANGED <<build, segVars, rankVars, extVars>>
    \/ \E t \in env.readers : CompleteLoad(t) /\ UNCHANGED <<build, segVars, rankVars, extVars>>
    \/ \E t \in env.readers : Interpolate(t) /\ UNCHANGED <<build, segVars, rankVars, extVars>>
    \/ SetCacheBudget /\ UNCHANGED <<build, segVars, rankVars, extVars>>

\* concurrent readers that pass coordinates and indices inside the volume
SpecCache == InitCacheSpec /\ [][NextCache]_vars

InitBoundsSpec ==
    InitCache /\ env = AnyCaller /\ build = "none" /\ IdleSeg /\ IdleRank /\ IdleExt

\* one reader that passes any coordinate and any index
SpecBounds == InitBoundsSpec /\ [][NextCache]_vars

InitRoundSpec ==
    InitRound /\ build = "none" /\ IdleSeg /\ IdleRank /\ IdleCache /\ IdleGui
    /\ IdleVolSel /\ IdleInvert /\ IdleMesh
NextRound ==
    \/ \E i \in Particles :
          Evaluate(i) /\ UNCHANGED <<build, segVars, rankVars, cacheVars, guiVars, volSelVars, invVars, meshVars>>
    \/ CommitRound /\ UNCHANGED <<build, segVars, rankVars, cacheVars, guiVars, volSelVars, invVars, meshVars>>
\* the relaxation rounds of one step, particles evaluated in any order
SpecRound == InitRoundSpec /\ [][NextRound]_vars

InitGuiSpec ==
    InitGui /\ build = "none" /\ IdleSeg /\ IdleRank /\ IdleCache /\ IdleRound
    /\ IdleVolSel /\ IdleInvert /\ IdleMesh
NextGui ==
    \/ Construct /\ UNCHANGED <<build, segVars, rankVars, cacheVars, roundVars, volSelVars, invVars, meshVars>>
    \/ RunHasPointSet /\ UNCHANGED <<build, segVars, rankVars, cacheVars, roundVars, volSelVars, invVars, meshVars>>
    \/ RunGetPointSet /\ UNCHANGED <<build, segVars, rankVars, cacheVars, roundVars, volSelVars, invVars, meshVars>>
    \/ RunMesh /\ UNCHANGED <<build, segVars, rankVars, cacheVars, roundVars, volSelVars, invVars, meshVars>>
    \/ RunFlatten /\ UNCHANGED <<build, segVars, rankVars, cacheVars, roundVars, volSelVars, invVars, meshVars>>
    \/ RunTexture /\ UNCHANGED <<build, segVars, rankVars, cacheVars, roundVars, volSelVars, invVars, meshVars>>
    \/ RunStore /\ UNCHANGED <<build, segVars, rankVars, cacheVars, roundVars, volSelVars, invVars, meshVars>>
    \/ RunSetStatus /\ UNCHANGED <<build, segVars, rankVars, cacheVars, roundVars, volSelVars, invVars, meshVars>>
    \/ GetFilePath /\ UNCHANGED <<build, segVars, rankVars, cacheVars, roundVars, volSelVars, invVars, meshVars>>
    \/ SaveTexture /\ UNCHANGED <<build, segVars, rankVars, cacheVars, roundVars, volSelVars, invVars, meshVars>>
    \/ ExportTexture /\ UNCHANGED <<build, segVars, rankVars, cacheVars, roundVars, volSelVars, invVars, meshVars>>
    \/ CloseEvent /\ UNCHANGED <<build, segVars, rankVars, cacheVars, roundVars, volSelVars, invVars, meshVars>>
\* a session of VC-Texture: the main window's actions and the texture thread
SpecGui == InitGuiSpec /\ [][NextGui]_vars

InitVolSelSpec ==
    InitVolSel /\ build = "none" /\ IdleSeg /\ IdleRank /\ IdleCache /\ IdleRound
    /\ IdleGui /\ IdleInvert /\ IdleMesh
NextVolSel ==
    SelectVolume
    /\ UNCHANGED <<build, segVars, rankVars, cacheVars, roundVars, guiVars, invVars, meshVars>>
\* vc_segment choosing its volume, for every package, option and association
SpecVolSel == InitVolSelSpec /\ [][NextVolSel]_vars

InitInvertSpec ==
    InitInvert /\ build = "none" /\ IdleSeg /\ IdleRank /\ IdleCache /\ IdleRound
    /\ IdleGui /\ IdleVolSel /\ IdleMesh
NextInvert ==
    InvertCloud
    /\ UNCHANGED <<build, segVars, rankVars, cacheVars, roundVars, guiVars, volSelVars, meshVars>>
\* vc_invertCloud applied to bounded point sets and volumes
SpecInvert == InitInvertSpec /\ [][NextInvert]_vars

InitMeshSpec ==
    InitMesh /\ build = "none" /\ IdleSeg /\ IdleRank /\ IdleCache /\ IdleRound
    /\ IdleGui /\ IdleVolSel /\ IdleInvert
NextMesh ==
    \/ addVert /\ UNCHANGED <<build, segVars, rankVars, cacheVars, roundVars, guiVars, volSelVars, invVars>>
    \/ \E f \in FaceChoices :
          addFace(f[1], f[2], f[3]) /\ UNCHANGED <<build, segVars, rankVars, cacheVars, roundVars, guiVars, volSelVars, invVars>>
    \/ constructConnectedness /\ UNCHANGED <<build, segVars, rankVars, cacheVars, roundVars, guiVars, volSelVars, invVars>>
    \/ clear /\ UNCHANGED <<build, segVars, rankVars, cacheVars, roundVars, guiVars, volSelVars, invVars>>
\* a caller of HalfEdgeMesh: any order of addVert, addFace,
\* constructConnectedness and clear
SpecMesh == InitMeshSpec /\ [][NextMesh]_vars

(***************************************************************************)
(* Properties of a vc_segment run                                          *)
(***************************************************************************)
Abs(n) == IF n < 0 THEN -n ELSE n

\* the target index has been computed and checked
TargetComputed ==
    \/ pc \in {"clouds", "run", "stepping", "saved"}
    \/ pc \in {"exited", "crashed"} /\ failure \notin {"usage", "bad_any_cast"}

\* the starting row has been read, filtered and checked
StartRowChecked ==
    \/ pc \in {"run", "stepping", "saved"}
    \/ pc = "exited" /\ failure = "ChainWidthMismatch"
    \/ pc = "crashed" /\ failure \in {"target before start", Throw.threw, "logic_error"}

\* the stored point set is what it was when the run loaded it
StoredUntouched == ~overwritten /\ stored = masterCloud

\* C1: in every propagation run the chain holds exactly the declared chain
\* width (the width of the seed chain) before and after every step, and every
\* row of the saved point set, immutable or appended, has that width.
ChainWidthInvariant ==
    /\ invoked =>
         /\ Len(chain) = chainLength
         /\ Len(chain) = Len(segPath)
         /\ \A r \in 1..Len(accumulatedSurface) :
              Len(accumulatedSurface[r]) = Len(segPath)
    /\ pc = "saved" =>
         /\ stored.width = Len(segPath)
         /\ height(stored) = height(immutableCloud) + steps
         /\ \A r \in 1..height(stored) : Len(stored.rows[r]) = Len(segPath)

\* C1 witness: a saved run that kept an immutable row and appended two rows
ChainWidthWitness ==
    pc = "saved" /\ steps >= 2 /\ height(immutableCloud) >= 1 /\ Len(segPath) = 2

\* C2: for targetZ > startZ a run that entered the segmenter ends after
\* exactly ceil((targetZ - startZ) / stepSize) steps, each of which advanced
\* currentZ by stepSize and appended one row.
ExactStepCount ==
    (invoked /\ pc \in {"saved", "crashed"} /\ startZ < targetZ) =>
        /\ steps = CeilDiv(targetZ - startZ, stepSize)
        /\ Len(accumulatedSurface) = steps
        /\ currentZ = startZ + steps * stepSize

\* C3: the target index is end-index when given and startIndex + stride
\* otherwise, and a target that is not after the start index is rejected
\* before any step, leaving the stored point set as it was.
TargetIndexRule ==
    TargetComputed =>
        /\ endIndex = IF opts.hasEnd THEN opts.end ELSE startIndex + opts.stride
        /\ startIndex >= endIndex =>
             /\ pc = "exited"
             /\ ~invoked /\ steps = 0
             /\ StoredUntouched

\* C3 witness: an end-index before the start index was rejected
TargetIndexWitness ==
    /\ pc = "exited" /\ failure = "nothing to segment"
    /\ opts.hasEnd /\ opts.end < startIndex

\* C4: when the points of the starting row that remain after the z = -1
\* points are removed are not as many as the declared chain width, the run
\* fails before any step, the segmenter is never invoked and the stored point
\* set is not overwritten.
WidthMismatchRejected ==
    StartRowChecked =>
        LET row == getRow(masterCloud, startIndex - minIndex)
            remaining == SelectSeq(row, LAMBDA e : e.z # -1)
        IN Len(remaining) # masterCloud.width =>
             /\ pc = "exited" /\ failure = "ChainWidthMismatch"
             /\ ~invoked /\ steps = 0
             /\ StoredUntouched

\* C4 witness: a starting row that lost a sentinel point was rejected
WidthMismatchWitness ==
    /\ pc = "exited" /\ failure = "ChainWidthMismatch"
    /\ Len(segPath) < chainLength /\ Len(segPath) >= 1

\* C5: a particle whose profile yields no maxima candidate does not abort the
\* run: choosing the next position never ends the run with an exception.
NoCandidateNeverAborts ==
    ~(pc = "crashed" /\ failure = Throw.threw)

\* C12: the saved point set is the master cloud's rows 0 .. startIndex -
\* minIndex - 1, unchanged and in their order, followed by the rows the run
\* produced; when startIndex equals minIndex it is the produced rows only.
SavedIsPrefixPlusProduced ==
    pc = "saved" =>
        LET k == startIndex - minIndex
        IN /\ k >= 0
           /\ stored.width = masterCloud.width
           /\ height(stored) = k + Len(accumulatedSurface)
           /\ \A r \in 1..k : stored.rows[r] = masterCloud.rows[r]
           /\ \A r \in 1..Len(accumulatedSurface) :
                stored.rows[k + r] = accumulatedSurface[r]
           /\ startIndex = minIndex => stored.rows = accumulatedSurface

\* C12 witness: a saved run that started on the second row of a two-row
\* cloud and produced rows
SavedIsPrefixPlusProducedWitness ==
    /\ pc = "saved" /\ steps >= 1
    /\ startIndex - minIndex = 1 /\ height(masterCloud) = 2

\* C17: a run given neither end-index nor stride gets no further than the
\* argument check: it exits there with a usage error, before the package is
\* opened and before a target index is computed.
NeitherEndNorStrideRejected ==
    (~opts.hasEnd /\ ~opts.hasStride /\ pc # "start") =>
        /\ pc = "exited" /\ failure = "usage"
        /\ masterCloud = None /\ startIndex = None /\ endIndex = None

(***************************************************************************)
(* Properties of vc_segment's choice of volume                             *)
(***************************************************************************)
\* C16: the run goes on with the volume named by --volume when the option
\* is supplied, otherwise with the segmentation's associated volume, or else
\* with the first volume of the package.
VolumeOptionHonoured ==
    vsPc = "selected" =>
        vsVolume = IF vsOption # 0 THEN vsOption
                   ELSE IF vsSegVolumeID # 0 THEN vsSegVolumeID
                   ELSE firstVolume(vsVolumes)

(***************************************************************************)
(* Properties of findNextPosition                                          *)
(***************************************************************************)
\* C6: the candidates are ordered by ascending |column - center.x| whichever
\* side of the centre they lie on, and the selected candidate is one nearest
\* the centre column.
RankedByProximity ==
    rkPc = "returned" =>
        LET x == centerX(ResliceSize)
        IN /\ \A i, j \in 1..Len(rkSorted) :
                i < j => Abs(rkSorted[i] - x) <= Abs(rkSorted[j] - x)
           /\ rkNext # Throw =>
                \A k \in 1..Len(rkMaxima) :
                    Abs(rkNext.col - x) <= Abs(rkMaxima[k] - x)

(***************************************************************************)
(* Properties of the slice cache                                           *)
(***************************************************************************)
\* position of a slice in the recency order (1 is the most recently used)
Pos(order, i) == CHOOSE k \in 1..Len(order) : order[k] = i

EvictsUnpinnedLRU ==
    [][\A i \in Ready \ Ready' :
          /\ i \notin Pinned
          /\ \A j \in (Ready \cap Ready') \ Pinned : Pos(lru, j) < Pos(lru, i)]_vars

\* C8 witness: the least recently used plane of all was pinned, the eviction
\* passed it over and it is still resident and pinned
EvictsUnpinnedLRUWitness ==
    /\ lastEvict.passedOver
    /\ lastEvict.by = "insert"
    /\ lru # <<>> /\ lru[Len(lru)] \in Pinned

\* C9: a slice index has at most one load in progress; the index stays marked
\* (neither evicted nor resident) until that load completes; and a reader is
\* only ever handed complete planes.
LoadOnce ==
    /\ \A t1, t2 \in Readers :
         (tpc[t1] = "loading" /\ tpc[t2] = "loading" /\ t1 # t2)
             => target(t1) # target(t2)
    /\ \A t \in Readers : tpc[t] = "loading" => entry[target(t)] = "loading"
    /\ \A i \in SliceIds :
         entry[i] = "loading" =>
            /\ \E t \in Readers : tpc[t] = "loading" /\ target(t) = i
            /\ \A k \in 1..Len(lru) : lru[k] # i
    /\ \A t \in Readers : \A i \in held[t] : entry[i] = "ready"
    /\ lastReturn.kind \in {"plane", "value"} => lastReturn.complete

\* C9 witness: a reader wants the slice another reader is loading
LoadOnceWitness ==
    \E t1, t2 \in Readers :
        /\ t1 # t2
        /\ tpc[t1] = "loading" /\ tpc[t2] = "acquire"
        /\ target(t2) = target(t1)

\* C10: a sample outside [0,width) x [0,height) x [0,numSlices) returns the
\* no-data value and never starts reading slices, a getSlice outside
\* [0,numSlices) returns the error IndexOutOfRange, and no slice outside the
\* volume is ever loaded.
OutOfRangeHandled ==
    /\ \A t \in Readers :
         tpc[t] # "idle" =>
            IF req[t].op = "sample"
            THEN /\ req[t].x >= 0 /\ req[t].x <= 2 * SliceWidth - 1
                 /\ req[t].y >= 0 /\ req[t].y <= 2 * SliceHeight - 1
                 /\ req[t].z >= 0 /\ req[t].z <= 2 * NumSlices - 1
            ELSE req[t].index >= 0 /\ req[t].index <= NumSlices - 1
    /\ \A i \in SliceIds : (i < 0 \/ i > NumSlices - 1) => entry[i] = "absent"
    /\ \A t \in Readers : \A i \in held[t] : i >= 0 /\ i <= NumSlices - 1
    /\ lastReturn.kind = "nodata" =>
         \/ lastReturn.x < 0 \/ lastReturn.x > 2 * SliceWidth - 1
         \/ lastReturn.y < 0 \/ lastReturn.y > 2 * SliceHeight - 1
         \/ lastReturn.z < 0 \/ lastReturn.z > 2 * NumSlices - 1
    /\ lastReturn.kind = "error" =>
         /\ lastReturn.err = "IndexOutOfRange"
         /\ lastReturn.index < 0 \/ lastReturn.index > NumSlices - 1

\* C10 witness: a sample at z = numSlices returned the no-data value after
\* slices had been read for earlier samples
OutOfRangeHandledWitness ==
    /\ lastReturn.kind = "nodata"
    /\ lastReturn.z = 2 * NumSlices
    /\ Ready # {}

(***************************************************************************)
(* Properties of the relaxation rounds                                     *)
(***************************************************************************)
\* C11: the chain does not change while the particles of a round are being
\* evaluated, and the chain a round ends with is, for every particle, the
\* selection made from the chain the round started with, so it is the same
\* for every order of evaluation.
FrozenSnapshotRound ==
    [][/\ rdRound' = rdRound => rdChain' = rdChain
       /\ rdRound' # rdRound =>
            rdChain' = [i \in Particles |-> select(rdChain, i, rdCands[i])]]_vars

\* C11 witness: a round evaluated out of index order has ended, and two
\* neighbouring particles both hold a position they selected
FrozenSnapshotWitness ==
    /\ rdRound >= 1 /\ rdReordered
    /\ \E i \in 1..(MaxParticles - 1) :
         /\ rdChain[i] # Sentinel /\ rdChain[i + 1] # Sentinel
         /\ rdChain[i] > rdChain[i + 1]

(***************************************************************************)
(* Properties of VC-Texture                                                *)
(***************************************************************************)
\* C14: a run that found the active segmentation without a point set, or
\* loaded a point set of height <= 1, ended with the status CloudError, did
\* no meshing, flattening or texturing, and left the stored rendering as it
\* was.
CloudErrorStopsRun ==
    (/\ thPc = "returned"
     /\ \/ thSeen.kind = "noPointSet" /\ ~seg.has
        \/ thSeen.kind = "cloud" /\ seg.height <= 1)
    => /\ thResult = "CloudError"
       /\ status \in {"CloudError", "Inactive"}
       /\ thDid = {}
       /\ rendering.run # runs

\* C14 witness: the second run met a one-row cloud and the first run's
\* rendering is still the stored one
CloudErrorStopsRunWitness ==
    /\ thPc = "returned" /\ thSeen.kind = "cloud" /\ seg.height = 1
    /\ runs = 2 /\ rendering = [images |-> TRUE, run |-> 1]

\* C15: a close request made while the status is Active is ignored: the
\* window stays open and nothing else changes; the window only ever closes
\* from a status that is not Active.
CloseIgnoredWhileActive ==
    [][/\ (guiTick' # guiTick /\ lastGui'.action = "closeEvent" /\ status = "Active")
            => /\ lastGui'.outcome = "ignored"
               /\ windowOpen'
               /\ UNCHANGED <<status, files, rendering, volPkg>>
       /\ (windowOpen /\ ~windowOpen') => status # "Active"]_vars

\* C15 witness: a close request was ignored while the thread was texturing
CloseIgnoredWhileActiveWitness ==
    /\ lastGui = [action |-> "closeEvent", outcome |-> "ignored"]
    /\ status = "Active" /\ thPc = "texture" /\ windowOpen

\* C19: from its construction until run() ends the status is Active, and
\* run() ends by setting the status to one of CloudError, Successful or
\* Failed, so that after run() has returned the status is that value (or
\* the Inactive a later GUI action resets it to) and never Active.
StatusSetWhenRunEnds ==
    /\ thPc \in RunningStages => status = "Active" /\ thResult = "none"
    /\ thPc = "returned" =>
         /\ thResult \in Finals
         /\ status \in {thResult, "Inactive"}
         /\ status # "Active"

\* C19 witness: run() ended in the catch block after the mesh and the
\* flattening had been computed
StatusSetWhenRunEndsWitness ==
    /\ thPc = "returned" /\ thResult = "Failed" /\ status = "Failed"
    /\ thDid = {"mesh", "flatten"}

\* C20: an open-volume, save-texture or export-texture action taken while
\* the status is Active returns after its message and leaves the status, the
\* volume package, the GUI contents, the rendering and the files as they
\* were.
ActiveBlocksFileActions ==
    [][(/\ guiTick' # guiTick
        /\ lastGui'.action \in {"getFilePath", "saveTexture", "exportTexture"}
        /\ status = "Active")
       => /\ lastGui'.outcome = "wait"
          /\ UNCHANGED <<status, volPkg, guiShown, rendering, files, thPc, thResult>>]_vars

\* C20 witness: save-texture was refused during the second run although the
\* first run's rendering could have been saved
ActiveBlocksFileActionsWitness ==
    /\ lastGui = [action |-> "saveTexture", outcome |-> "wait"]
    /\ status = "Active" /\ rendering.images /\ volPkg # None

\* C21: whenever the status is Successful, the rendering held in the globals
\* is the one made by the run that set that status; a run that ended with
\* CloudError or Failed has not replaced the stored rendering.
RenderingStoredBeforeSuccessful ==
    /\ status = "Successful" =>
         /\ thPc = "returned" /\ thResult = "Successful"
         /\ rendering = [images |-> TRUE, run |-> runs]
    /\ thResult \in {"CloudError", "Failed"} => rendering.run # runs

\* C21 witness: the GUI thread found the status Successful after the second
\* run (a save was attempted and failed) and the globals hold that run's
\* rendering, not the first run's
RenderingStoredBeforeSuccessfulWitness ==
    /\ lastGui = [action |-> "saveTexture", outcome |-> "saveFailed"]
    /\ status = "Successful" /\ runs = 2
    /\ rendering = [images |-> TRUE, run |-> 2]

\* C22: an open-volume action taken while the status is Successful leaves
\* the status Successful and the rendering and the GUI as they were when the
\* user answered Cancel or the save failed; it resets the status to Inactive
\* or clears the GUI only after Discard or a successful save.
UnsavedTextureKeptUnlessResolved ==
    [][(/\ guiTick' # guiTick
        /\ lastGui'.action = "getFilePath"
        /\ status = "Successful")
       => /\ lastGui'.asked \in {"cancel", "saveFailed"} =>
                /\ status' = "Successful"
                /\ UNCHANGED <<rendering, guiShown, volPkg>>
          /\ (status' = "Inactive" \/ guiShown' # guiShown) =>
                lastGui'.asked \in {"discard", "saved"}]_vars

(***************************************************************************)
(* Properties of HalfEdgeMesh                                              *)
(***************************************************************************)
\* C23: after constructConnectedness on a mesh built with addVert and
\* addFace, every edge whose pair is set is the pair of its pair, and its
\* pair runs between the same two vertices in the opposite direction.
PairsAreMutual ==
    (hmPc = "ready" /\ hmLast = "constructConnectedness" /\ hmClears = 0) =>
        \A i \in 1..Len(edges_) :
            LET e == edges_[i]
                p == edgeHeap[e].pair
            IN p # 0 =>
                 /\ edgeHeap[p].pair = e
                 /\ edgeHeap[p].vert = edgeHeap[edgeHeap[e].next].vert
                 /\ edgeHeap[edgeHeap[p].next].vert = edgeHeap[e].vert

\* C24: after a clear the vertices, edges and faces of the mesh carry the
\* ids 0, 1, 2, ... in the order they were added, and the pair of an edge
\* of the mesh is an edge of the mesh, never one added before the clear.
ClearedMeshIsFresh ==
    (hmPc = "ready" /\ hmClears > 0) =>
        /\ \A i \in 1..Len(verts_) : verts_[i].id = i - 1
        /\ \A i \in 1..Len(edges_) : edgeHeap[edges_[i]].id = i - 1
        /\ \A i \in 1..Len(faces_) : faces_[i].id = i - 1
        /\ \A i \in 1..Len(edges_) :
              LET p == edgeHeap[edges_[i]].pair
              IN p # 0 => \E j \in 1..Len(edges_) : edges_[j] = p

(***************************************************************************)
(* Properties of vc_invertCloud                                            *)
(***************************************************************************)
\* C18: the inverted point set has the input's width and height, its row r
\* is the input's row height-1-r, every point with z = -1 keeps z = -1 and
\* every other point's z becomes (numSlices - 1) - z.
InvertPreservesShape ==
    ivPc = "written" =>
        LET h == Len(ivInput.rows)
        IN /\ ivOutput.width = ivInput.width
           /\ Len(ivOutput.rows) = h
           /\ \A r \in 1..h :
                /\ Len(ivOutput.rows[r]) = ivInput.width
                /\ \A c \in 1..ivInput.width :
                     LET p == ivInput.rows[h + 1 - r][c]
                         q == ivOutput.rows[r][c]
                     IN /\ q.x = p.x
                        /\ p.z = -1 => q.z = -1
                        /\ p.z # -1 => q.z = ivNumSlices - 1 - p.z

\* C18 witness: a two-row point set with a sentinel was inverted inside a
\* volume that holds both rows
InvertPreservesShapeWitness ==
    /\ ivPc = "written"
    /\ Len(ivInput.rows) = 2 /\ ivInput.width = 2
    /\ \E r \in 1..2, c \in 1..2 : ivInput.rows[r][c].z = -1
    /\ ivNumSlices > BaseZ + 1
    /\ ivOutput.rows # ivInput.rows
====
